---- MODULE Spec2Model ----
(***************************************************************************)
(* World / zone streaming of RoguelikeBulletHell: WorldManager             *)
(* (world_manager.py), ZoneBuilder (zone_builder.py), Zone (zone.py) and   *)
(* ZoneTemplateLoader (zone_template_loader.py).                           *)
(*                                                                         *)
(* A zone coordinate is the tuple <<x, y>>.  A reference to a Zone object  *)
(* (as opposed to a coordinate) is a 3-tuple, see ZoneRef.                 *)
(***************************************************************************)
EXTENDS Integers, Sequences, FiniteSets, TLC

VARIABLES
    phase,            \* "new" before WorldManager.__init__ ran its start-up calls, "ready", "failed" (constructor raised), "closed" (cleanup ran)
    templates,        \* ZoneTemplateLoader.templates: biome directory -> zone_type -> list of templates
    zones,            \* WorldManager.zones
    active_zones,     \* WorldManager.active_zones
    zone_states,      \* WorldManager.zone_states
    particle_manager, \* WorldManager.particle_manager: "none" or "present"
    noise_field,      \* which deterministic noise field noise.pnoise2 computes for seed 42
    saved_file,       \* content of zone_states.json as last written
    built_live,       \* history: coordinates for which build_zone was invoked and that were not evicted since
    evicted,          \* history: tracked coordinate -> entities/state its zone held when it last left the table
    lastOp,           \* history: what the last operation did
    call,             \* a single call of a catalog or validator function: its arguments and, once made, its result
    entities          \* EntityManager.entities, of which the WorldManager reads nothing: the ZONE entities in it, kept where a specification observes them

vars == <<phase, templates, zones, active_zones, zone_states,
          particle_manager, noise_field, saved_file, built_live, evicted, lastOp,
          call, entities>>

----------------------------------------------------------------------------
(* Program constants *)

ZONE_SIZE == 320
TILE_SIZE == 32
initial_load_distance == 1
max_load_distance == 2

(* Bounds of the model *)

MaxFault == 1          \* the entity manager fault hits one of the first MaxFault create_entity calls of an operation

----------------------------------------------------------------------------
(* Template definitions that may lie on disk.  tiles is the JSON grid; the  *)
(* loader derives width, height and the tile list from it.                  *)

Biomes == {"forest", "tech", "lava", "ice"}
ZoneTypes == {"start", "early_game", "boss_zone"}
BIOME_SETTINGS == {"forest", "tech", "lava", "ice"}

TemplateFile(name, dir, biome, zone_type, cols, rows) ==
    [name |-> name, dir |-> dir, biome |-> biome, zone_type |-> zone_type,
     cols |-> cols, rows |-> rows,
     decorations |-> {}, enemies |-> {}, loot |-> {},
     platforms |-> {}, transitions |-> {}]

(* a 2 x 1 grid whose first token is platform_middle, with a "transitions"   *)
(* key of two entries <<x, y, target>>: one to a template that no file      *)
(* defines, one to forest_start itself                                      *)
FileForestStart ==
    [TemplateFile("forest_start", "forest", "forest", "start", 2, 1)
        EXCEPT !.platforms = {<<0, 0>>},
               !.transitions = {<<0, 0, "forest_glade">>, <<1, 0, "forest_start">>}]
FileForestEmptyRow == TemplateFile("forest_empty_row", "forest", "forest", "boss_zone", 0, 1)
(* a 1 x 1 grid with an enemy entry at x = 1 *)
FileTechBoss ==
    [TemplateFile("tech_boss", "tech", "tech", "boss_zone", 1, 1)
        EXCEPT !.enemies = {<<1, 0>>}]

(* Possible listings of the zones directory, in os.listdir order. *)
Disks ==
    { <<>>,
      <<FileForestStart>>,
      <<FileForestStart, FileForestEmptyRow, FileTechBoss>> }

(* ZoneTemplateLoader.load_all_templates, one file: tiles from the grid,    *)
(* width = len(tiles[0]), height = len(tiles); the enemies, loot and        *)
(* decorations entries are copied as they are, transitions are not read.    *)
LoadTemplate(f) ==
    [name |-> f.name, biome |-> f.biome, zone_type |-> f.zone_type,
     width |-> f.cols, height |-> f.rows,
     tiles |-> {<<x, y>> : x \in 0..(f.cols - 1), y \in 0..(f.rows - 1)},
     decorations |-> f.decorations, enemies |-> f.enemies, loot |-> f.loot,
     transitions |-> {}]

NoTemplate == [name |-> "", biome |-> "", zone_type |-> "", width |-> 0,
               height |-> 0, tiles |-> {}, decorations |-> {}, enemies |-> {},
               loot |-> {}, transitions |-> {}]

RECURSIVE LoadInto(_, _, _)
LoadInto(cat, disk, i) ==
    IF i > Len(disk) THEN cat
    ELSE LET f == disk[i]
             t == LoadTemplate(f)
         IN LoadInto([cat EXCEPT ![f.dir][f.zone_type] = Append(@, t)], disk, i + 1)

EmptyCatalog == [b \in Biomes |-> [zt \in ZoneTypes |-> <<>>]]

load_all_templates(disk) == LoadInto(EmptyCatalog, disk, 1)

(* biome in self.templates and zone_type in self.templates[biome]: a       *)
(* bucket exists from the first template appended to it.                    *)
HasBucket(cat, biome, zone_type) ==
    /\ biome \in DOMAIN cat
    /\ zone_type \in DOMAIN cat[biome]
    /\ Len(cat[biome][zone_type]) > 0

(* random.choice(list) on the draw-th value of the stream rs *)
Choice(list, rs, draw) == list[(rs[(draw % Len(rs)) + 1] % Len(list)) + 1]

RECURSIVE Concat(_, _)
Concat(seqs, i) == IF i > Len(seqs) THEN <<>> ELSE seqs[i] \o Concat(seqs, i + 1)

(* ZoneTemplateLoader.get_templates_by_biome *)
get_templates_by_biome(cat, biome) ==
    IF biome \in DOMAIN cat
    THEN Concat(<<cat[biome]["start"], cat[biome]["early_game"], cat[biome]["boss_zone"]>>, 1)
    ELSE <<>>

(* ZoneTemplateLoader.get_random_template: ok is FALSE when ValueError is   *)
(* raised.                                                                  *)
get_random_template_substituting(cat, biome, zone_type, rs, draw) ==
    IF HasBucket(cat, biome, zone_type)
    THEN [ok |-> TRUE, template |-> Choice(cat[biome][zone_type], rs, draw)]
    ELSE IF get_templates_by_biome(cat, biome) # <<>>
    THEN [ok |-> TRUE, template |-> Choice(get_templates_by_biome(cat, biome), rs, draw)]
    ELSE [ok |-> FALSE, template |-> NoTemplate]

get_random_template(cat, biome, zone_type, rs, draw) ==
    IF ~HasBucket(cat, biome, zone_type)
    THEN [ok |-> FALSE, template |-> NoTemplate]
    ELSE [ok |-> TRUE, template |-> Choice(cat[biome][zone_type], rs, draw)]

----------------------------------------------------------------------------
(* Noise and biome classification *)

(* noise.pnoise2 is a fixed function for the fixed seed 42.  The model takes *)
(* a field with two biomes: 0.30 (tech) for x >= 2 and 0.00 (forest) west   *)
(* of it, in hundredths, and a noise library that faults on every call.     *)
NoiseFields == {"east", "faulty"}

pnoise2_faults(field, x, y) == field = "faulty"

pnoise2_by_residency(field, x, y) ==
    IF <<x, y>> \in DOMAIN zones THEN 60
    ELSE IF field = "east" /\ x >= 2 THEN 30 ELSE 0

pnoise2(field, x, y) ==
    IF field = "east" /\ x >= 2 THEN 30 ELSE 0

(* WorldManager._get_noise_value: ok is FALSE when NoiseGenerationError is  *)
(* raised from the except clause.                                           *)
_get_noise_value(field, x, y) ==
    IF pnoise2_faults(field, x, y)
    THEN [ok |-> FALSE, value |-> 0]
    ELSE [ok |-> TRUE, value |-> pnoise2(field, x, y)]

(* WorldManager._get_biome_type, thresholds 0.25, 0.5, 0.75 *)
_get_biome_type(noise_value) ==
    IF noise_value < 25 THEN "forest"
    ELSE IF noise_value < 50 THEN "tech"
    ELSE IF noise_value < 75 THEN "lava"
    ELSE "ice"

Abs(n) == IF n < 0 THEN -n ELSE n

Range(seq) == {seq[i] : i \in DOMAIN seq}

(* WorldManager._get_zone_type *)
_get_zone_type(x, y) ==
    IF x = 0 /\ y = 0 THEN "start"
    ELSE IF Abs(x) <= 1 /\ Abs(y) <= 1 THEN "early_game"
    ELSE "boss_zone"

----------------------------------------------------------------------------
(* Zones *)

ZoneId(x, y) == <<"zone", x, y>>          \* f"zone_{x}_{y}"
StartZoneId == <<"start_zone">>

(* A reference to the Zone object built at coordinate (x, y): what a Python *)
(* set holds when a Zone, not a coordinate tuple, is added to it.           *)
ZoneRef(x, y) == <<x, y, 1>>

(* Zone.__init__: biome is template.biome *)
Zone(id, template, x, y) ==
    [kind |-> "Zone", id |-> id, template |-> template, x |-> x, y |-> y,
     biome |-> template.biome, entities |-> <<>>, state |-> {}]

(* entities.Entity created with EntityType.EFFECT: it has a uuid id and no  *)
(* template, entities or state attribute; biome is the zone_type of its     *)
(* ZoneComponent, which _spawn_biome_particles sets to the classified biome. *)
EffectEntity(biome, x, y) ==
    [kind |-> "Entity", id |-> <<"uuid">>, template |-> NoTemplate, x |-> x,
     y |-> y, biome |-> biome, entities |-> <<>>, state |-> {}]

(* WorldManager._validate_zone_template *)
_validate_zone_template_inclusive(t) ==
    /\ t.biome # ""
    /\ t.zone_type # ""
    /\ t.biome \in BIOME_SETTINGS
    /\ t.width > 0 /\ t.height > 0
    /\ \A tile \in t.tiles :
          0 <= tile[1] /\ tile[1] <= t.width /\ 0 <= tile[2] /\ tile[2] <= t.height

_validate_zone_template(t) ==
    /\ t.biome # ""
    /\ t.zone_type # ""
    /\ t.biome \in BIOME_SETTINGS
    /\ t.width > 0 /\ t.height > 0
    /\ \A tile \in t.tiles :
          0 <= tile[1] /\ tile[1] < t.width /\ 0 <= tile[2] /\ tile[2] < t.height

(* WorldManager._validate_zone_entities *)
_validate_zone_entities(zone) ==
    Cardinality({zone.entities[i] : i \in DOMAIN zone.entities}) = Len(zone.entities)

(* WorldManager._validate_zone *)
_validate_zone(zone) ==
    /\ zone.id # <<>>
    /\ zone.template # NoTemplate
    /\ _validate_zone_template(zone.template)
    /\ zone.template.tiles # {}
    /\ zone.template.width > 0 /\ zone.template.height > 0
    /\ _validate_zone_entities(zone)

(* WorldManager._apply_zone_state: only the 'entities' key (and             *)
(* 'properties', which no persisted document of the model carries) is read. *)
_apply_zone_state(zone, state) == [zone EXCEPT !.entities = state.entities]

----------------------------------------------------------------------------
(* The running state of one operation: the fields it changes and a log of   *)
(* what it did: called, the coordinates _generate_zone was called for;      *)
(* built, those build_zone was invoked for, in order; dup, those built      *)
(* while in the table; calls and draws, the number of create_entity calls   *)
(* and of random draws so far; biome, the biome _get_biome_type returned    *)
(* for each coordinate it classified; markers, the coordinates whose ZONE   *)
(* entity the entity manager registered.  err is "none" until an exception  *)
(* is raised, failedAt the coordinate being generated then.                 *)

NoBiomes == [c \in {} |-> ""]

Start(zs) ==
    [zones |-> zs, called |-> {}, built |-> <<>>, dup |-> {}, calls |-> 0,
     draws |-> 0, biome |-> NoBiomes, markers |-> <<>>, err |-> "none", failedAt |-> {}]

Put(zs, k, v) == (k :> v) @@ zs

(* EntityManager.create_entity: the failAt-th call of the operation raises. *)
CreateFails(s, failAt) == s.calls + 1 = failAt

(* ZoneBuilder.build_zone: result [s, ok, zone] *)
build_zone(s, template, x, y, zone_id, failAt) ==
    LET logged == [s EXCEPT !.built = Append(@, <<x, y>>),
                            !.dup = IF <<x, y>> \in DOMAIN s.zones
                                    THEN @ \cup {<<x, y>>} ELSE @,
                            !.calls = @ + 1]
    IN IF CreateFails(s, failAt)
       THEN [s |-> logged, ok |-> FALSE, zone |-> Zone(zone_id, template, x, y)]
       ELSE [s |-> [logged EXCEPT !.markers = Append(@, <<x, y>>)], ok |-> TRUE,
             zone |-> Zone(zone_id, template, x, y)]

(* WorldManager._spawn_biome_particles *)
_spawn_biome_particles(s, pm, biome, x, y, failAt) ==
    IF pm = "none" THEN s
    ELSE IF CreateFails(s, failAt) THEN [s EXCEPT !.calls = @ + 1]
    ELSE [s EXCEPT !.calls = @ + 1,
                   !.zones = Put(@, <<x, y>>, EffectEntity(biome, x, y))]

(* The except clause of _generate_zone re-raises every exception as        *)
(* ZoneGenerationError; err keeps the cause.                                *)
Raise(s, x, y, cause) == [s EXCEPT !.err = cause, !.failedAt = {<<x, y>>}]

(* WorldManager._generate_zone.  env: the catalog, the persisted states,    *)
(* the noise field, the particle manager, the random stream and the fault.  *)
_generate_zone_unguarded(s, x, y) == FALSE

_generate_zone_guard(s, x, y) == <<x, y>> \in DOMAIN s.zones

_generate_zone(s0, x, y, env) ==
    LET s == [s0 EXCEPT !.called = @ \cup {<<x, y>>}] IN
    IF _generate_zone_guard(s, x, y) THEN s
    ELSE
    LET nv == _get_noise_value(env.field, x, y) IN
    IF ~nv.ok THEN Raise(s, x, y, "NoiseGenerationError")
    ELSE
    LET biome == _get_biome_type(nv.value)
        list == get_templates_by_biome(env.templates, biome)
        sb == [s EXCEPT !.biome = Put(@, <<x, y>>, biome)]
    IN
    IF list = <<>> THEN Raise(sb, x, y, "TemplateNotFound")
    ELSE
    LET template == Choice(list, env.rs, sb.draws)
        s1 == [sb EXCEPT !.draws = @ + 1]
    IN
    IF ~_validate_zone_template(template) THEN Raise(s1, x, y, "InvalidTemplate")
    ELSE
    LET b == build_zone(s1, template, x, y, ZoneId(x, y), env.failAt) IN
    IF ~b.ok THEN Raise(b.s, x, y, "ZoneBuildError")
    ELSE IF ~_validate_zone(b.zone) THEN Raise(b.s, x, y, "InvalidZone")
    ELSE
    LET zone == IF ZoneId(x, y) \in DOMAIN env.zone_states
                THEN _apply_zone_state(b.zone, env.zone_states[ZoneId(x, y)])
                ELSE b.zone
        s2 == [b.s EXCEPT !.zones = Put(@, <<x, y>>, zone)]
    IN _spawn_biome_particles(s2, env.pm, biome, x, y, env.failAt)

----------------------------------------------------------------------------
(* Inputs *)

CameraXs == {-1, 0, ZONE_SIZE}
CameraYs == {0}
RandomStreams == {<<0>>, <<1>>}           \* the (cyclic) stream of random draws of one operation
Faults == 0..MaxFault                     \* 0: the entity manager does not fail
EntityIds == {"e1"}
TrackedCoords == {<<2, 0>>}               \* zones that a spawner adds entities to

(* Possible contents of zone_states.json at start-up: a document written by *)
(* an earlier session for one zone; all other zones have no saved state.    *)
NoStates == [k \in {} |-> [entities |-> <<>>, state |-> {}]]
PersistedFiles ==
    { [k \in {ZoneId(2, 0)} |-> [entities |-> <<"e9">>, state |-> {}]] }

NoEvicted == [k \in {} |-> [entities |-> <<>>, state |-> {}]]

(* zone_states.json on disk: readable is FALSE when opening or parsing it   *)
(* raises.                                                                  *)
File(doc) == [readable |-> TRUE, doc |-> doc]
UnreadableFile == [readable |-> FALSE, doc |-> NoStates]

(* WorldManager._load_zone_states: result [zone_states, err], err the       *)
(* exception that leaves the method.                                        *)
_load_zone_states_raising(states, file) ==
    IF file.readable THEN [zone_states |-> file.doc, err |-> "none"]
    ELSE [zone_states |-> states, err |-> "PersistenceIOError"]

_load_zone_states(states, file) ==
    [zone_states |-> IF file.readable THEN file.doc ELSE states, err |-> "none"]

(* WorldManager._save_zone_states: open(.., 'w') may raise, which leaves    *)
(* the file as it was, or json.dump may raise after the file was truncated. *)
(* Result [file, zone_states, err].                                         *)
WriteOutcomes == {"written", "open_raises", "dump_raises"}

_save_zone_states(states, file, outcome) ==
    [file |-> IF outcome = "written" THEN File(states)
              ELSE IF outcome = "open_raises" THEN file
              ELSE UnreadableFile,
     zone_states |-> states,
     err |-> "none"]

(* The log of an operation.  failedAt is that of the most recent            *)
(* zone-generating operation; rebuilt are the coordinates the operation     *)
(* built although an earlier build of them was not followed by an eviction. *)
(* again tells whether the operation is an update that directly follows an  *)
(* update at the same camera position, and whether that one failed.         *)
Op(name, camera, s, gone, raised) ==
    [op |-> name, camera |-> camera, called |-> s.called, built |-> s.built,
     dup |-> s.dup, rebuilt |-> s.rebuilt, biome |-> s.biome, failedAt |-> s.failedAt,
     err |-> s.err, evicted |-> gone, raised |-> raised,
     again |-> IF name = "update" /\ lastOp.op = "update" /\ lastOp.camera = camera
               THEN (IF lastOp.failedAt = {} THEN "after_ok" ELSE "after_failed")
               ELSE "no"]

Logged(s) ==
    [called |-> s.called, built |-> s.built, dup |-> s.dup,
     rebuilt |-> Range(s.built) \cap built_live, biome |-> s.biome,
     failedAt |-> s.failedAt, err |-> s.err]

Env(cat, states, rs, failAt) ==
    [templates |-> cat, zone_states |-> states, field |-> noise_field,
     pm |-> particle_manager, rs |-> rs, failAt |-> failAt]

(* The coordinates of the square of radius r around (cx, cy), in the order  *)
(* of the nested range loops: x outer, y inner.                             *)
Window(cx, cy, r) ==
    [i \in 1..((2 * r + 1) * (2 * r + 1)) |->
        <<cx - r + ((i - 1) \div (2 * r + 1)), cy - r + ((i - 1) % (2 * r + 1))>>]

----------------------------------------------------------------------------
(* EntityManager.entities, reduced to the number of ZONE entities it holds  *)
(* for each zone coordinate.  create_entity registers the entity it         *)
(* creates; nothing in the WorldManager or the ZoneBuilder calls            *)
(* remove_entity.                                                           *)

MaxMarkers == 2        \* an operation runs while it leaves at most MaxMarkers ZONE entities per coordinate

NoMarkers == [c \in {} |-> 0]

Unobserved == [observed |-> FALSE, markers |-> NoMarkers]
EmptyRegistry == [observed |-> TRUE, markers |-> NoMarkers]

Occurrences(seq, c) == Cardinality({i \in DOMAIN seq : seq[i] = c})

MarkerCount(reg, c) == IF c \in DOMAIN reg.markers THEN reg.markers[c] ELSE 0

(* The registry after the create_entity calls that succeeded for coords *)
Registered(reg, coords) ==
    IF ~reg.observed THEN reg
    ELSE [reg EXCEPT !.markers =
             [c \in DOMAIN reg.markers \cup Range(coords) |->
                 MarkerCount(reg, c) + Occurrences(coords, c)]]

Fits(reg) == \A c \in DOMAIN reg.markers : reg.markers[c] <= MaxMarkers

----------------------------------------------------------------------------
(* WorldManager.__init__, from reload_templates on *)

(* WorldManager._initialize_starting_zone: result s with err set when the   *)
(* ValueError of get_random_template or the build's exception escapes.      *)
_initialize_starting_zone(s, env) ==
    LET r == get_random_template(env.templates, "forest", "start", env.rs, s.draws) IN
    IF ~r.ok
    THEN Raise(s, 0, 0, "TemplateNotFound")
    ELSE
    LET start_template == r.template
        b == build_zone([s EXCEPT !.draws = @ + 1], start_template, 0, 0,
                        StartZoneId, env.failAt)
    IN IF ~b.ok THEN Raise(b.s, 0, 0, "ZoneBuildError")
       ELSE [b.s EXCEPT !.zones = Put(@, <<0, 0>>, b.zone)]

(* WorldManager._generate_initial_zones: every exception escapes *)
RECURSIVE _generate_initial_zones(_, _, _, _)
_generate_initial_zones(s, coords, i, env) ==
    IF i > Len(coords) \/ s.err # "none" THEN s
    ELSE _generate_initial_zones(_generate_zone(s, coords[i][1], coords[i][2], env),
                                 coords, i + 1, env)

WorldManagerInit ==
    /\ phase = "new"
    /\ \E disk \in Disks, rs \in RandomStreams, failAt \in Faults :
         LET cat == load_all_templates(disk)
             ld == _load_zone_states(zone_states, saved_file)
             env == Env(cat, ld.zone_states, rs, failAt)
             s0 == [Start(zones) EXCEPT !.err = ld.err]
             s1 == IF s0.err # "none" THEN s0
                   ELSE _initialize_starting_zone(s0, env)
             s2 == IF s1.err # "none" THEN s1
                   ELSE _generate_initial_zones(s1, Window(0, 0, initial_load_distance), 1, env)
         IN /\ templates' = cat
            /\ zone_states' = ld.zone_states
            /\ zones' = s2.zones
            /\ active_zones' = IF s1.err # "none" THEN active_zones
                               ELSE active_zones \cup {ZoneRef(0, 0)}
            /\ phase' = IF s2.err # "none" THEN "failed" ELSE "ready"
            /\ built_live' = built_live \cup Range(s2.built)
            /\ entities' = Registered(entities, s2.markers)
            /\ lastOp' = Op("init", <<0, 0>>, Logged(s2), {}, s2.err # "none")
    /\ UNCHANGED <<particle_manager, noise_field, saved_file, evicted, call>>

----------------------------------------------------------------------------
(* WorldManager.update *)

(* zone_x = int(camera_x // (self.zone_size * 32)) *)
FocalCoord(camera) == camera \div (ZONE_SIZE * TILE_SIZE)

(* The coordinates update visits, in loop order, and the set it collects    *)
(* them in.                                                                 *)
desired(zone_x, zone_y) == Window(zone_x, zone_y, max_load_distance)

new_active_zones_narrow(zone_x, zone_y) ==
    Range(Window(zone_x, zone_y, initial_load_distance))

new_active_zones(zone_x, zone_y) == Range(desired(zone_x, zone_y))

RECURSIVE UpdateLoop(_, _, _, _)
UpdateLoop(s, coords, i, env) ==
    IF i > Len(coords) \/ s.err # "none" THEN s
    ELSE IF coords[i] \notin DOMAIN s.zones
         THEN UpdateLoop(_generate_zone(s, coords[i][1], coords[i][2], env), coords, i + 1, env)
         ELSE UpdateLoop(s, coords, i + 1, env)

Restrict(f, keys) == [k \in DOMAIN f \cap keys |-> f[k]]

Snapshot(zs, gone) ==
    [c \in DOMAIN evicted \cup gone |->
        IF c \in gone THEN [entities |-> zs[c].entities, state |-> zs[c].state]
        ELSE evicted[c]]

update(camera_x, camera_y, rs, failAt) ==
    LET zone_x == FocalCoord(camera_x)
        zone_y == FocalCoord(camera_y)
        coords == desired(zone_x, zone_y)
        new_active == new_active_zones(zone_x, zone_y)
        s == UpdateLoop(Start(zones), coords, 1,
                        Env(templates, zone_states, rs, failAt))
        zones_to_unload == DOMAIN s.zones \ new_active
    IN /\ Fits(Registered(entities, s.markers))
       /\ entities' = Registered(entities, s.markers)
       /\ IF s.err # "none"
          THEN \* the except clause of update: the rest of the body is skipped
               /\ zones' = s.zones
               /\ active_zones' = active_zones
               /\ evicted' = evicted
               /\ built_live' = built_live \cup Range(s.built)
               /\ lastOp' = Op("update", <<camera_x, camera_y>>, Logged(s), {}, FALSE)
          ELSE /\ active_zones' = new_active
               /\ zones' = Restrict(s.zones, new_active)
               /\ evicted' = Snapshot(s.zones, zones_to_unload \cap TrackedCoords)
               /\ built_live' = (built_live \cup Range(s.built)) \ zones_to_unload
               /\ lastOp' = Op("update", <<camera_x, camera_y>>, Logged(s), zones_to_unload, FALSE)

Update ==
    /\ phase = "ready"
    /\ \E camera_x \in CameraXs, camera_y \in CameraYs, rs \in RandomStreams, failAt \in Faults :
         update(camera_x, camera_y, rs, failAt)
    /\ UNCHANGED <<phase, templates, zone_states, particle_manager, noise_field,
                   saved_file, call>>

----------------------------------------------------------------------------
(* Other operations *)

NoLog ==
    [called |-> {}, built |-> <<>>, dup |-> {}, rebuilt |-> {}, biome |-> NoBiomes,
     failedAt |-> lastOp.failedAt, err |-> "none"]

(* ZoneTemplateLoader.reload_templates *)
ReloadTemplatesInvalidating ==
    /\ phase = "ready"
    /\ \E disk \in Disks :
         /\ templates' = load_all_templates(disk)
         /\ zones' = Restrict(zones,
                {c \in DOMAIN zones :
                    zones[c].template \in Range(get_templates_by_biome(templates', zones[c].biome))})
    /\ evicted' = NoEvicted
    /\ lastOp' = Op("reload_templates", <<0, 0>>, NoLog, {}, FALSE)
    /\ UNCHANGED <<phase, active_zones, zone_states,
                   particle_manager, noise_field, saved_file, built_live, call, entities>>

ReloadTemplates ==
    /\ phase = "ready"
    /\ \E disk \in Disks : templates' = load_all_templates(disk)
    /\ evicted' = NoEvicted
    /\ lastOp' = Op("reload_templates", <<0, 0>>, NoLog, {}, FALSE)
    /\ UNCHANGED <<phase, zones, active_zones, zone_states,
                   particle_manager, noise_field, saved_file, built_live, call, entities>>

(* Zone.add_entity, called by a spawner on a zone of the table *)
AddEntity ==
    /\ phase = "ready"
    /\ \E c \in TrackedCoords \cap DOMAIN zones, e \in EntityIds :
         /\ zones[c].kind = "Zone"
         /\ e \notin Range(zones[c].entities)
         /\ zones' = [zones EXCEPT ![c].entities = Append(@, e)]
    /\ lastOp' = Op("add_entity", <<0, 0>>, NoLog, {}, FALSE)
    /\ UNCHANGED <<phase, templates, active_zones, zone_states,
                   particle_manager, noise_field, saved_file, built_live, evicted, call, entities>>

(* WorldManager.cleanup: _save_zone_states, then active_zones.clear(); an   *)
(* exception leaving _save_zone_states is caught by cleanup's except        *)
(* clause, which skips the clear.                                           *)
Cleanup ==
    /\ phase = "ready"
    /\ \E outcome \in WriteOutcomes :
         LET r == _save_zone_states(zone_states, saved_file, outcome)
         IN /\ saved_file' = r.file
            /\ zone_states' = r.zone_states
            /\ active_zones' = IF r.err = "none" THEN {} ELSE active_zones
    /\ phase' = "closed"
    /\ lastOp' = Op("cleanup", <<0, 0>>, NoLog, {}, FALSE)
    /\ UNCHANGED <<templates, zones, particle_manager,
                   noise_field, built_live, evicted, call, entities>>

----------------------------------------------------------------------------

(* The environment a WorldManager is constructed in: whether a particle     *)
(* manager is passed, what the noise library computes and what              *)
(* zone_states.json holds.                                                  *)
Configuration(pm, field, file) == [pm |-> pm, field |-> field, file |-> file]

Configurations ==
    {Configuration(pm, "east", File(doc)) : pm \in {"none", "present"}, doc \in PersistedFiles}

(* Environments with a fault: a noise library that raises, an unreadable    *)
(* zone_states.json.                                                        *)
FaultConfigurations ==
    {Configuration(pm, "faulty", File(doc)) : pm \in {"none", "present"}, doc \in PersistedFiles}
    \cup {Configuration("none", "east", UnreadableFile)}

(* No call of a catalog or validator function is being made. *)
NoCall ==
    [fn |-> "none", disk |-> <<>>, biome |-> "", zone_type |-> "", rs |-> <<0>>,
     template |-> NoTemplate, done |-> FALSE, ok |-> FALSE, result |-> NoTemplate]

World(cfg) ==
    /\ phase = "new"
    /\ templates = load_all_templates(<<>>)
    /\ zones = [k \in {} |-> Zone(<<>>, NoTemplate, 0, 0)]
    /\ active_zones = {}
    /\ zone_states = NoStates
    /\ particle_manager = cfg.pm
    /\ noise_field = cfg.field
    /\ saved_file = cfg.file
    /\ built_live = {}
    /\ evicted = NoEvicted
    /\ lastOp = [op |-> "new", camera |-> <<0, 0>>, called |-> {}, built |-> <<>>,
                 dup |-> {}, rebuilt |-> {}, biome |-> NoBiomes, failedAt |-> {},
                 err |-> "none",
                 evicted |-> {}, raised |-> FALSE, again |-> "no"]

Init ==
    /\ \E cfg \in Configurations : World(cfg)
    /\ call = NoCall
    /\ entities = Unobserved

Next ==
    \/ WorldManagerInit
    \/ Update
    \/ ReloadTemplates
    \/ AddEntity
    \/ Cleanup

Spec == Init /\ [][Next]_vars

(* The same program started in an environment with a fault. *)
InitFaults ==
    /\ \E cfg \in FaultConfigurations : World(cfg)
    /\ call = NoCall
    /\ entities = Unobserved

SpecFaults == InitFaults /\ [][Next]_vars

----------------------------------------------------------------------------
(* Single calls of ZoneTemplateLoader.get_random_template and of            *)
(* WorldManager._validate_zone_template on arguments drawn from bounded     *)
(* sets.                                                                    *)

MaxDim == 2            \* widths and heights of the templates handed to the validator are 0..MaxDim

FileForestGrove == TemplateFile("forest_grove", "forest", "forest", "start", 1, 1)

CallDisks == Disks \cup {<<FileForestStart, FileForestEmptyRow, FileForestGrove>>}

(* A template with one tile at (x, y) *)
TileTemplate(w, h, x, y) ==
    [NoTemplate EXCEPT !.name = "probe", !.biome = "forest", !.zone_type = "start",
                       !.width = w, !.height = h, !.tiles = {<<x, y>>}]

Calls ==
    {[NoCall EXCEPT !.fn = "get_random_template", !.disk = disk, !.biome = biome,
                    !.zone_type = zone_type, !.rs = rs] :
        disk \in CallDisks, biome \in Biomes \cup {"desert"},
        zone_type \in ZoneTypes \cup {"normal"}, rs \in RandomStreams}
    \cup
    {[NoCall EXCEPT !.fn = "_validate_zone_template", !.template = TileTemplate(w, h, x, y)] :
        w \in 0..MaxDim, h \in 0..MaxDim, x \in (-1)..MaxDim, y \in (-1)..MaxDim}

CallGetRandomTemplate ==
    /\ call.fn = "get_random_template" /\ ~call.done
    /\ LET r == get_random_template(load_all_templates(call.disk), call.biome,
                                    call.zone_type, call.rs, 0)
       IN call' = [call EXCEPT !.done = TRUE, !.ok = r.ok, !.result = r.template]
    /\ UNCHANGED <<phase, templates, zones, active_zones, zone_states, particle_manager,
                   noise_field, saved_file, built_live, evicted, lastOp, entities>>

CallValidateZoneTemplate ==
    /\ call.fn = "_validate_zone_template" /\ ~call.done
    /\ call' = [call EXCEPT !.done = TRUE, !.ok = _validate_zone_template(call.template)]
    /\ UNCHANGED <<phase, templates, zones, active_zones, zone_states, particle_manager,
                   noise_field, saved_file, built_live, evicted, lastOp, entities>>

InitCalls ==
    /\ World(Configuration("none", "east", File(NoStates)))
    /\ call \in Calls
    /\ entities = Unobserved

NextCalls ==
    \/ CallGetRandomTemplate
    \/ CallValidateZoneTemplate

SpecCalls == InitCalls /\ [][NextCalls]_vars

----------------------------------------------------------------------------
(* Spatial queries of the WorldManager, called between ticks:               *)
(* get_zone_at, get_transition_at and handle_player_transition.             *)

PLAYER_SIZE == 32      \* the player's sprite, and with it player.rect, is 32 x 32

TemplateFiles == {FileForestStart, FileForestEmptyRow, FileTechBoss, FileForestGrove}

(* The file a template was loaded from; template names are unique.          *)
FileNamed(name) == CHOOSE f \in TemplateFiles : f.name = name

(* WorldManager.get_zone_at: the key it looks up, found FALSE for None *)
get_zone_at(zs, x, y) ==
    LET c == <<x \div (ZONE_SIZE * TILE_SIZE), y \div (ZONE_SIZE * TILE_SIZE)>>
    IN [found |-> c \in DOMAIN zs, coord |-> c]

NoTransition == <<0, 0, "">>

(* The tile of a template that get_transition_at converts a position to,    *)
(* for a template whose dimensions it can divide by.                        *)
LocalTile(template, player_x, player_y) ==
    << (player_x % ZONE_SIZE) \div (ZONE_SIZE \div template.width),
       (player_y % ZONE_SIZE) \div (ZONE_SIZE \div template.height) >>

(* WorldManager.get_transition_at: result [raised, found, transition];      *)
(* raised for the AttributeError of zone.template on an entity that has no  *)
(* template and for the ZeroDivisionError of the tile conversion.           *)
get_transition_at(zs, player_x, player_y) ==
    LET z == get_zone_at(zs, player_x, player_y)
        none == [raised |-> FALSE, found |-> FALSE, transition |-> NoTransition]
        raise == [raised |-> TRUE, found |-> FALSE, transition |-> NoTransition]
    IN IF ~z.found THEN none
       ELSE LET zone == zs[z.coord] IN
       IF zone.kind = "Entity" THEN raise
       ELSE IF zone.template.width = 0 \/ zone.template.height = 0
               \/ ZONE_SIZE \div zone.template.width = 0
               \/ ZONE_SIZE \div zone.template.height = 0
       THEN raise
       ELSE LET tile == LocalTile(zone.template, player_x, player_y)
                hits == {t \in zone.template.transitions :
                            t[1] = tile[1] /\ t[2] = tile[2]}
            IN IF hits = {} THEN none
               ELSE [raised |-> FALSE, found |-> TRUE,
                     transition |-> CHOOSE t \in hits : TRUE]

(* The first position in the order of the tile list: rows outer, columns    *)
(* inner.                                                                   *)
FirstTile(ps) ==
    CHOOSE p \in ps : \A q \in ps : p[2] < q[2] \/ (p[2] = q[2] /\ p[1] <= q[1])

(* ZoneTemplate.get_spawn_positions: the positions above the tiles of type  *)
(* platform_middle or platform_glow; the type of a tile is the token of the *)
(* grid of the file the template was loaded from.  Result: the set of       *)
(* positions and the first of them.                                         *)
get_spawn_positions(template) ==
    LET platform_tiles == template.tiles \cap FileNamed(template.name).platforms
    IN [positions |-> {<<p[1], p[2] - 1>> : p \in platform_tiles},
        first |-> IF platform_tiles = {} THEN <<0, 0>>
                  ELSE LET p == FirstTile(platform_tiles) IN <<p[1], p[2] - 1>>]

Rect(x, y) == [x |-> x, y |-> y]
centerx(rect) == rect.x + PLAYER_SIZE \div 2
centery(rect) == rect.y + PLAYER_SIZE \div 2

(* WorldManager.handle_player_transition: result [ok, rect].  The members   *)
(* of active are references to Zone objects (until the first tick) or       *)
(* coordinate tuples (from the first tick on), never both; zone.template on *)
(* a tuple raises AttributeError, which the except clause turns into False. *)
handle_player_transition_snapping(zs, active, rect) ==
    [ok |-> FALSE,
     rect |-> Rect(rect.x - (rect.x % TILE_SIZE) + 1, rect.y - (rect.y % TILE_SIZE))]

handle_player_transition(zs, active, rect) ==
    LET t == get_transition_at(zs, centerx(rect), centery(rect))
        target == t.transition[3]
        unmoved == [ok |-> FALSE, rect |-> rect]
        refs == {z \in active : Len(z) = 3}
        matching == {z \in refs :
                        /\ zs[<<z[1], z[2]>>].template.name = target
                        /\ get_spawn_positions(zs[<<z[1], z[2]>>].template).positions # {}}
    IN IF t.raised \/ ~t.found \/ target = "" THEN unmoved
       ELSE IF refs # active THEN unmoved
       ELSE IF matching = {} THEN unmoved
       ELSE LET zone == zs[LET z == CHOOSE z \in matching : TRUE IN <<z[1], z[2]>>]
                spawn == get_spawn_positions(zone.template).first
            IN [ok |-> TRUE,
                rect |-> Rect(zone.x + spawn[1] * (ZONE_SIZE \div zone.template.width),
                              zone.y + spawn[2] * (ZONE_SIZE \div zone.template.height))]

(* The player rectangles the queries are made with: over tile (0,0) and    *)
(* over tile (1,0) of the zone at (0,0), in the zone at (2,0), and in a     *)
(* zone that no tick of the model loads.                                    *)
PlayerRects ==
    {Rect(0, 0), Rect(ZONE_SIZE \div 2, 0), Rect(2 * ZONE_SIZE * TILE_SIZE, 0),
     Rect(-4 * ZONE_SIZE * TILE_SIZE, 0)}

NoQuery ==
    [fn |-> "none", rect |-> Rect(0, 0), at |-> <<0, 0>>, ok |-> FALSE,
     raised |-> FALSE, found |-> FALSE, transition |-> NoTransition,
     after |-> Rect(0, 0)]

GetTransitionAt ==
    /\ phase = "ready"
    /\ \E rect \in PlayerRects :
         LET t == get_transition_at(zones, centerx(rect), centery(rect))
         IN call' = [NoQuery EXCEPT !.fn = "get_transition_at", !.rect = rect,
                                    !.at = <<centerx(rect), centery(rect)>>,
                                    !.raised = t.raised, !.found = t.found,
                                    !.transition = t.transition, !.after = rect]
    /\ UNCHANGED <<phase, templates, zones, active_zones, zone_states, particle_manager,
                   noise_field, saved_file, built_live, evicted, lastOp, entities>>

HandlePlayerTransition ==
    /\ phase = "ready"
    /\ \E rect \in PlayerRects :
         LET r == handle_player_transition(zones, active_zones, rect)
         IN call' = [NoQuery EXCEPT !.fn = "handle_player_transition", !.rect = rect,
                                    !.at = <<centerx(rect), centery(rect)>>,
                                    !.ok = r.ok, !.after = r.rect]
    /\ UNCHANGED <<phase, templates, zones, active_zones, zone_states, particle_manager,
                   noise_field, saved_file, built_live, evicted, lastOp, entities>>

(* The environment the game constructs its WorldManager in: main.py passes *)
(* a ParticleSystem.                                                        *)
QueryConfigurations == {cfg \in Configurations : cfg.pm = "present"}

InitQueries ==
    /\ \E cfg \in QueryConfigurations : World(cfg)
    /\ call = NoQuery
    /\ entities = Unobserved

NextQueries ==
    \/ WorldManagerInit
    \/ Update
    \/ GetTransitionAt
    \/ HandlePlayerTransition

SpecQueries == InitQueries /\ [][NextQueries]_vars

----------------------------------------------------------------------------
(* ZoneTemplate.apply_variations, called repeatedly on one catalog          *)
(* template.  Here the entries of the template lists are the objects of     *)
(* zone_types.py with their attributes, in list order.                      *)

MaxVariations == 3     \* number of apply_variations calls made on the template

Seeds == {1, 2}

(* What random yields after random.seed(seed): a fixed stream of draws for  *)
(* each seed, in hundredths, taken cyclically.  Which streams the generator *)
(* yields is drawn from a set.                                              *)
SeededStreams == {<<10>>, <<90>>, <<10, 90>>, <<90, 10>>}
Generators == [Seeds -> SeededStreams]

(* The template of a file with one platform_middle tile, one glow_node      *)
(* decoration, one enemy and one common loot entry, as the loader builds    *)
(* it: no variant, no properties, no patrol points.                         *)
VariedTemplate ==
    [name |-> "tech_lab", biome |-> "tech", zone_type |-> "early_game",
     width |-> 1, height |-> 1,
     tiles |-> << [type |-> "platform_middle", x |-> 0, y |-> 0, variant |-> ""] >>,
     decorations |-> << [type |-> "glow_node", x |-> 0, y |-> 0, properties |-> <<>>] >>,
     enemies |-> << [type |-> "drone", x |-> 0, y |-> 0, patrol_points |-> <<>>] >>,
     loot |-> << [type |-> "health_small", x |-> 0, y |-> 0, rarity |-> "common"] >>]

(* The d-th draw (from 0) of a stream *)
Draw(stream, d) == stream[(d % Len(stream)) + 1]

(* random.choice(list) on the d-th draw *)
ChoiceOf(list, stream, d) == list[(Draw(stream, d) % Len(list)) + 1]

(* random.randint(a, b) on the d-th draw *)
RandInt(a, b, stream, d) == a + (Draw(stream, d) % (b - a + 1))

(* ZoneTemplate._get_random_variant: one draw *)
_get_random_variant(tile_type, stream, d) ==
    LET variants == IF tile_type = "platform_middle" THEN <<"normal", "damaged", "reinforced">>
                    ELSE IF tile_type = "platform_glow" THEN <<"blue", "green", "red">>
                    ELSE IF tile_type = "tech_tower" THEN <<"active", "inactive", "overloaded">>
                    ELSE <<"normal">>
    IN ChoiceOf(variants, stream, d)

(* ZoneTemplate._get_random_decoration_properties: four draws, whatever the *)
(* type; the properties are the tuple of the values of the dictionary.      *)
_get_random_decoration_properties(dec_type, stream, d) ==
    IF dec_type = "glow_node"
    THEN <<50 + Draw(stream, d) \div 2, ChoiceOf(<<"blue", "green", "red">>, stream, d + 1)>>
    ELSE IF dec_type = "cable_bundle"
    THEN <<(3 * Draw(stream, d + 2)) \div 10, Draw(stream, d + 3) < 20>>
    ELSE <<>>

(* ZoneTemplate._generate_patrol_points: 1 + 2 * num_points draws *)
_generate_patrol_points(x, y, stream, d) ==
    LET num_points == RandInt(2, 4, stream, d)
    IN [i \in 1..num_points |->
           <<x + RandInt(-3, 3, stream, d + 2 * i - 1),
             y + RandInt(-2, 2, stream, d + 2 * i)>>]

(* ZoneTemplate._get_random_loot_type: one draw *)
_get_random_loot_type(rarity, stream, d) ==
    LET loot_types ==
            IF rarity = "common" THEN <<"health_small", "ammo_small", "scrap">>
            ELSE IF rarity = "uncommon" THEN <<"health_medium", "ammo_medium", "component">>
            ELSE IF rarity = "rare" THEN <<"health_large", "ammo_large", "artifact">>
            ELSE IF rarity = "legendary" THEN <<"powerup", "key", "special">>
            ELSE <<"scrap">>
    IN ChoiceOf(loot_types, stream, d)

(* The four loops of apply_variations over a list, from entry i on, d draws *)
(* having been made: result [items, d].                                     *)
RECURSIVE VaryTiles(_, _, _, _)
VaryTiles(items, i, stream, d) ==
    IF i > Len(items) THEN [items |-> items, d |-> d]
    ELSE IF Draw(stream, d) < 30
    THEN VaryTiles([items EXCEPT ![i].variant = _get_random_variant(items[i].type, stream, d + 1)],
                   i + 1, stream, d + 2)
    ELSE VaryTiles(items, i + 1, stream, d + 1)

RECURSIVE VaryDecorations(_, _, _, _)
VaryDecorations(items, i, stream, d) ==
    IF i > Len(items) THEN [items |-> items, d |-> d]
    ELSE IF Draw(stream, d) < 20
    THEN VaryDecorations([items EXCEPT ![i].properties =
                              _get_random_decoration_properties(items[i].type, stream, d + 1)],
                         i + 1, stream, d + 5)
    ELSE VaryDecorations(items, i + 1, stream, d + 1)

RECURSIVE VaryEnemies(_, _, _, _)
VaryEnemies(items, i, stream, d) ==
    IF i > Len(items) THEN [items |-> items, d |-> d]
    ELSE IF Draw(stream, d) < 40
    THEN LET points == _generate_patrol_points(items[i].x, items[i].y, stream, d + 1)
         IN VaryEnemies([items EXCEPT ![i].patrol_points = points],
                        i + 1, stream, d + 2 + 2 * Len(points))
    ELSE VaryEnemies(items, i + 1, stream, d + 1)

RECURSIVE VaryLoot(_, _, _, _)
VaryLoot(items, i, stream, d) ==
    IF i > Len(items) THEN [items |-> items, d |-> d]
    ELSE IF Draw(stream, d) < 30
    THEN VaryLoot([items EXCEPT ![i].type = _get_random_loot_type(items[i].rarity, stream, d + 1)],
                  i + 1, stream, d + 2)
    ELSE VaryLoot(items, i + 1, stream, d + 1)

(* ZoneTemplate._create_tile: a new ZoneTile of the same type and position  *)
_create_tile(tile) == [type |-> tile.type, x |-> tile.x, y |-> tile.y, variant |-> ""]

(* ZoneTemplate.apply_variations(random_seed) on self, stream being what    *)
(* the generator yields for the seed.  Result [template, self]: the         *)
(* template returned and self after the call.  The new template gets new    *)
(* tiles, but copies of the decorations, enemies and loot lists that hold   *)
(* the very objects of self, so what the loops assign to them shows in      *)
(* self.                                                                    *)
apply_variations(self, stream) ==
    LET tiles == VaryTiles([i \in DOMAIN self.tiles |-> _create_tile(self.tiles[i])], 1, stream, 0)
        decorations == VaryDecorations(self.decorations, 1, stream, tiles.d)
        enemies == VaryEnemies(self.enemies, 1, stream, decorations.d)
        loot == VaryLoot(self.loot, 1, stream, enemies.d)
    IN [template |-> [self EXCEPT !.tiles = tiles.items,
                                  !.decorations = decorations.items,
                                  !.enemies = enemies.items,
                                  !.loot = loot.items],
        self |-> [self EXCEPT !.decorations = decorations.items,
                              !.enemies = enemies.items,
                              !.loot = loot.items]]

(* call while apply_variations is called on the template source: the        *)
(* generator, the template as the calls left it, and the seed and returned  *)
(* template of every call, in order.                                        *)
Variations(generator) ==
    [fn |-> "apply_variations", generator |-> generator, source |-> VariedTemplate,
     returned |-> <<>>]

ApplyVariations ==
    /\ call.fn = "apply_variations"
    /\ Len(call.returned) < MaxVariations
    /\ \E seed \in Seeds :
         LET r == apply_variations(call.source, call.generator[seed])
         IN call' = [call EXCEPT !.source = r.self,
                                 !.returned = Append(@, [seed |-> seed, template |-> r.template])]
    /\ UNCHANGED <<phase, templates, zones, active_zones, zone_states, particle_manager,
                   noise_field, saved_file, built_live, evicted, lastOp, entities>>

InitVariations ==
    /\ World(Configuration("none", "east", File(NoStates)))
    /\ \E generator \in Generators : call = Variations(generator)
    /\ entities = Unobserved

NextVariations == ApplyVariations

SpecVariations == InitVariations /\ [][NextVariations]_vars

----------------------------------------------------------------------------
(* GameStateManager (game_state.py): the registered states, the current     *)
(* state and the state stack, kept in call together with the trail of the   *)
(* last three calls made.  A state is its state_id; "none" is None.         *)

MaxStack == 3          \* push_state is called while the stack holds fewer than MaxStack states

StateIds == {"menu", "playing", "paused"}

Entry(op, state_id) == [op |-> op, state_id |-> state_id]

(* The last three calls, the newest last *)
Trail(trail, entry) ==
    IF Len(trail) < 3 THEN Append(trail, entry) ELSE Append(Tail(trail), entry)

(* GameStateManager.__init__ *)
GameStateManager ==
    [fn |-> "GameStateManager", states |-> {}, current_state |-> "none",
     state_stack |-> <<>>, trail |-> <<>>]

(* GameStateManager.add_state *)
AddState ==
    /\ call.fn = "GameStateManager"
    /\ \E state_id \in StateIds :
         /\ state_id \notin call.states
         /\ call' = [call EXCEPT !.states = @ \cup {state_id}]
    /\ UNCHANGED <<phase, templates, zones, active_zones, zone_states, particle_manager,
                   noise_field, saved_file, built_live, evicted, lastOp, entities>>

(* GameStateManager.set_state: an unknown state_id is logged and ignored *)
SetState ==
    /\ call.fn = "GameStateManager"
    /\ \E state_id \in StateIds :
         call' = IF state_id \notin call.states
                 THEN [call EXCEPT !.trail = Trail(@, Entry("ignored", state_id))]
                 ELSE [call EXCEPT !.state_stack = <<state_id>>,
                                   !.current_state = state_id,
                                   !.trail = Trail(@, Entry("set_state", state_id))]
    /\ UNCHANGED <<phase, templates, zones, active_zones, zone_states, particle_manager,
                   noise_field, saved_file, built_live, evicted, lastOp, entities>>

(* GameStateManager.push_state *)
PushState ==
    /\ call.fn = "GameStateManager"
    /\ Len(call.state_stack) < MaxStack
    /\ \E state_id \in StateIds :
         call' = IF state_id \notin call.states
                 THEN [call EXCEPT !.trail = Trail(@, Entry("ignored", state_id))]
                 ELSE [call EXCEPT !.state_stack = Append(@, state_id),
                                   !.current_state = state_id,
                                   !.trail = Trail(@, Entry("push_state", state_id))]
    /\ UNCHANGED <<phase, templates, zones, active_zones, zone_states, particle_manager,
                   noise_field, saved_file, built_live, evicted, lastOp, entities>>

(* GameStateManager.pop_state: current_state = state_stack.pop() *)
PopState ==
    /\ call.fn = "GameStateManager"
    /\ call' = IF call.state_stack # <<>>
               THEN [call EXCEPT !.current_state = call.state_stack[Len(call.state_stack)],
                                 !.state_stack = SubSeq(@, 1, Len(@) - 1),
                                 !.trail = Trail(@, Entry("pop_state", "none"))]
               ELSE [call EXCEPT !.trail = Trail(@, Entry("pop_state", "none"))]
    /\ UNCHANGED <<phase, templates, zones, active_zones, zone_states, particle_manager,
                   noise_field, saved_file, built_live, evicted, lastOp, entities>>

InitStates ==
    /\ World(Configuration("none", "east", File(NoStates)))
    /\ call = GameStateManager
    /\ entities = Unobserved

NextStates ==
    \/ AddState
    \/ SetState
    \/ PushState
    \/ PopState

SpecStates == InitStates /\ [][NextStates]_vars

----------------------------------------------------------------------------
(* The WorldManager of the game with the entity manager's registry          *)
(* observed.                                                                *)

InitEntities ==
    /\ \E cfg \in QueryConfigurations : World(cfg)
    /\ call = NoCall
    /\ entities = EmptyRegistry

NextEntities ==
    \/ WorldManagerInit
    \/ Update

SpecEntities == InitEntities /\ [][NextEntities]_vars

----------------------------------------------------------------------------
(* Vocabulary of the properties *)

Updated == lastOp.op = "update"

(* The square of radius r around coordinate c *)
Ball(c, r) == {<<x, y>> : x \in (c[1] - r)..(c[1] + r), y \in (c[2] - r)..(c[2] + r)}

(* The coordinates the tick at a camera position visits *)
DesiredAt(camera) == Range(desired(FocalCoord(camera[1]), FocalCoord(camera[2])))

(* floor(focal / zoneSize) *)
FocalByZoneSize(camera) == <<camera[1] \div ZONE_SIZE, camera[2] \div ZONE_SIZE>>

(* Whatever template the random choice takes, generating c finds a valid one *)
CanOnlySucceed(cat, c) ==
    LET list == get_templates_by_biome(cat, _get_biome_type(pnoise2(noise_field, c[1], c[2])))
    IN list # <<>> /\ \A i \in DOMAIN list : _validate_zone_template(list[i])

Stored(z) == [entities |-> z.entities, state |-> z.state]

----------------------------------------------------------------------------
(* C1: after every call of update, failing generations included, the active *)
(* set is exactly the set of keys of the zone table.                        *)
C1_ActiveSetIsKeySet == Updated => active_zones = DOMAIN zones

(* C2: a generation failure at one desired coordinate does not stop the     *)
(* tick: when update returns, every other desired coordinate whose own      *)
(* generation succeeds is in the table, and no coordinate outside the       *)
(* desired set is.                                                          *)
C2_FailureIsIsolated ==
    (Updated /\ lastOp.failedAt # {}) =>
        /\ \A c \in DesiredAt(lastOp.camera) \ lastOp.failedAt :
              CanOnlySucceed(templates, c) => c \in DOMAIN zones
        /\ DOMAIN zones \subseteq DesiredAt(lastOp.camera)

(* C3: a zone rebuilt by a tick for a coordinate that an earlier tick       *)
(* evicted, nothing else having changed since, has the entities and state   *)
(* the evicted zone held at its eviction.                                   *)
C3_RoundTrip ==
    Updated =>
        \A c \in DOMAIN evicted \cap DOMAIN zones \cap Range(lastOp.built) :
            Stored(zones[c]) = evicted[c]

(* C4: whenever a zone leaves the table in a tick, or is still in it when   *)
(* cleanup runs, its entities and state are in zone_states under its id.    *)
C4_StateSavedOnLeave ==
    [][ /\ \A c \in DOMAIN zones \ DOMAIN zones' :
             /\ zones[c].id \in DOMAIN zone_states'
             /\ zone_states'[zones[c].id] = Stored(zones[c])
        /\ lastOp'.op = "cleanup" =>
             \A c \in DOMAIN zones :
                 /\ zones[c].id \in DOMAIN zone_states'
                 /\ zone_states'[zones[c].id] = Stored(zones[c]) ]_vars

(* C5: a coordinate whose generation failed in a tick is attempted again at *)
(* the next tick that still desires it, and is in the table after that tick *)
(* unless its own generation failed again.                                  *)
C5_RetriedNextTick ==
    [][ (lastOp'.op = "update") =>
          \A c \in lastOp.failedAt \cap DesiredAt(lastOp'.camera) :
              /\ c \in lastOp'.called
              /\ (CanOnlySucceed(templates', c) /\ c \notin lastOp'.failedAt)
                    => c \in DOMAIN zones' ]_vars

C8_TickLoadsBall ==
    [][ (lastOp'.op = "update" /\ lastOp'.failedAt = {}) =>
          /\ \E r \in initial_load_distance..max_load_distance :
                DOMAIN zones' = Ball(FocalByZoneSize(lastOp'.camera), r)
          /\ (lastOp.op = "init" /\ lastOp'.camera = <<0, 0>>) =>
                DOMAIN zones' = Ball(<<0, 0>>, initial_load_distance) ]_vars

(* C9: when the camera moves by exactly ZONE_SIZE along x between two       *)
(* consecutive ticks (here: ticks in which no generation fails), the second *)
(* tick evicts the trailing column of the table, builds the leading column  *)
(* and neither rebuilds nor evicts the rest.                                *)
C9_WindowShiftsOneColumn ==
    [][ (lastOp.op = "update" /\ lastOp'.op = "update"
         /\ lastOp.failedAt = {} /\ lastOp'.failedAt = {}
         /\ lastOp'.camera = <<lastOp.camera[1] + ZONE_SIZE, lastOp.camera[2]>>) =>
          LET old == DOMAIN zones
              trailing == {c \in old : \A d \in old : c[1] <= d[1]}
              leading == {<<c[1] + 1, c[2]>> : c \in {e \in old : \A d \in old : d[1] <= e[1]}}
          IN /\ lastOp'.evicted = trailing
             /\ Range(lastOp'.built) = leading
             /\ DOMAIN zones' = (old \ trailing) \cup leading ]_vars

(* C10: a missing template never escapes as an exception from a             *)
(* zone-generating operation, neither from update nor from the start-up     *)
(* generation of the constructor.                                           *)
C10_ContentGapDoesNotEscape == ~(lastOp.raised /\ lastOp.err = "TemplateNotFound")

----------------------------------------------------------------------------
(* C11: the noise sampler never raises: when noise.pnoise2 faults, no       *)
(* generation of a coordinate ends with the sampler's NoiseGenerationError  *)
(* (it goes on with a biome classified from the fallback value).            *)
C11_NoiseFaultAbsorbed == lastOp.err # "NoiseGenerationError"

(* The biome _get_biome_type returns for coordinate c in the current state, *)
(* "raised" when the sampler raises.                                        *)
classify(c) ==
    LET nv == _get_noise_value(noise_field, c[1], c[2])
    IN IF nv.ok THEN _get_biome_type(nv.value) ELSE "raised"

(* The coordinates of the row y = 0 that an operation can reach *)
ProbeCoords == {<<x, 0>> : x \in (-(max_load_distance + 1))..(max_load_distance + 1)}

Bucket(disk, biome, zone_type) ==
    {LoadTemplate(disk[i]) :
        i \in {j \in DOMAIN disk : disk[j].dir = biome /\ disk[j].zone_type = zone_type}}

(* C13: get_random_template(biome, zone_type) raises when the (biome,       *)
(* zone_type) bucket holds no template and otherwise returns a template of  *)
(* exactly that bucket, never one of another biome or zone type.            *)
C13_RandomTemplateFromBucket ==
    (call.fn = "get_random_template" /\ call.done) =>
        /\ call.ok <=> Bucket(call.disk, call.biome, call.zone_type) # {}
        /\ call.ok => call.result \in Bucket(call.disk, call.biome, call.zone_type)

C13_Witness ==
    /\ call.fn = "get_random_template" /\ call.done /\ call.ok
    /\ Cardinality(Bucket(call.disk, call.biome, call.zone_type)) = 2
    /\ call.result.name = "forest_grove"

(* C14: every zone an operation built and left in the table was built from  *)
(* a template of the catalog bucket of its coordinate's classified biome    *)
(* and its coordinate's zone type.                                          *)
C14_TemplateFromOwnBucket ==
    lastOp.op \in {"init", "update"} =>
        \A c \in Range(lastOp.built) \cap DOMAIN zones :
            zones[c].kind = "Zone" =>
                zones[c].template \in
                    Range(templates[classify(c)][_get_zone_type(c[1], c[2])])

(* The template invariant: positive dimensions, a known biome, and every    *)
(* position of every list inside [0, width) x [0, height).                  *)
InBounds(t, pos) == 0 <= pos[1] /\ pos[1] < t.width /\ 0 <= pos[2] /\ pos[2] < t.height

TemplateInvariant(t) ==
    /\ t.width > 0 /\ t.height > 0
    /\ t.biome \in BIOME_SETTINGS
    /\ \A pos \in t.tiles \cup t.decorations \cup t.enemies \cup t.loot \cup t.transitions :
          InBounds(t, pos)

(* C15: after every load or reload of the catalog, every template it holds  *)
(* satisfies the template invariant.                                        *)
C15_CatalogHoldsValidTemplates ==
    \A b \in DOMAIN templates : \A zt \in DOMAIN templates[b] :
        \A i \in DOMAIN templates[b][zt] : TemplateInvariant(templates[b][zt][i])

(* C16: no zone is in the table whose template has a non-positive width or  *)
(* height, an unknown biome, or an entry of any of its lists (tiles,        *)
(* decorations, enemies, loot, transitions) out of bounds.                  *)
C16_ResidentTemplatesValid ==
    \A c \in DOMAIN zones :
        zones[c].kind = "Zone" => TemplateInvariant(zones[c].template)

(* C17: for a template of width w and height h the validator accepts a tile *)
(* at (x, y) exactly when 0 <= x < w and 0 <= y < h.                        *)
C17_TileAcceptedIffInBounds ==
    (call.fn = "_validate_zone_template" /\ call.done) =>
        \A tile \in call.template.tiles :
            call.ok <=> /\ 0 <= tile[1] /\ tile[1] < call.template.width
                        /\ 0 <= tile[2] /\ tile[2] < call.template.height

C17_Witness ==
    /\ call.fn = "_validate_zone_template" /\ call.done /\ call.ok
    /\ call.template.width = 2 /\ call.template.height = 2
    /\ call.template.tiles = {<<1, 1>>}

(* C18: reload_templates leaves the zone table, with the template and       *)
(* contents of every zone in it, and the active set unchanged.              *)
C18_ReloadLeavesZonesIntact ==
    [][ lastOp'.op = "reload_templates" =>
          zones' = zones /\ active_zones' = active_zones ]_vars

C18_Witness ==
    /\ lastOp.op = "reload_templates"
    /\ \E c \in DOMAIN zones :
          /\ zones[c].kind = "Zone"
          /\ zones[c].template.name = "forest_start"
          /\ get_templates_by_biome(templates, "forest") = <<>>

(* C19: when registering the marker entity with the entity manager fails    *)
(* during build_zone (the only fault of a build in this model), the build   *)
(* does not fail: no operation ends with a build error, and the coordinate  *)
(* that was being built is in the table.                                    *)
C19_MarkerFailureTolerated ==
    /\ lastOp.err # "ZoneBuildError"
    /\ lastOp.op \in {"init", "update"} => Range(lastOp.built) \subseteq DOMAIN zones

----------------------------------------------------------------------------
(* The transitions that the file of the template of the zone owning world   *)
(* position pos declares at the tile of pos; none when the position has no  *)
(* zone in the table or the table entry has no template.                    *)
DeclaredAt(zs, pos) ==
    LET z == get_zone_at(zs, pos[1], pos[2])
    IN IF ~z.found THEN {}
       ELSE IF zs[z.coord].kind # "Zone" THEN {}
       ELSE LET template == zs[z.coord].template
                tile == LocalTile(template, pos[1], pos[2])
            IN {t \in FileNamed(template.name).transitions :
                    t[1] = tile[1] /\ t[2] = tile[2]}

(* The coordinates of the table whose zone was built from the template      *)
(* called name.                                                             *)
ResidentWith(zs, name) ==
    {c \in DOMAIN zs : zs[c].kind = "Zone" /\ zs[c].template.name = name}

(* Where handle_player_transition puts the player for the zone at c *)
SpawnRect(zs, c) ==
    LET spawn == get_spawn_positions(zs[c].template).first
    IN Rect(zs[c].x + spawn[1] * (ZONE_SIZE \div zs[c].template.width),
            zs[c].y + spawn[2] * (ZONE_SIZE \div zs[c].template.height))

HandledTransition == call'.fn = "handle_player_transition" /\ call' # call

(* C21: in every reachable state, before and after ticks, when the player   *)
(* stands on a tile for which the template of the owning zone declares a    *)
(* transition whose target is the template of a resident zone,              *)
(* handle_player_transition reports success and puts the player at the      *)
(* first spawn position of a zone of that template.                         *)
C21_TransitionTeleports ==
    [][ HandledTransition =>
          \A t \in DeclaredAt(zones, call'.at) :
              ResidentWith(zones, t[3]) # {} =>
                  /\ call'.ok
                  /\ \E c \in ResidentWith(zones, t[3]) : call'.after = SpawnRect(zones, c) ]_vars

(* C22: when no transition is declared at the player's position, or the     *)
(* target of the declared one is the template of no resident zone,          *)
(* handle_player_transition reports no success and changes neither the      *)
(* player's position nor the zone table, the active set, the persisted      *)
(* states or their file, and generates no zone.                             *)
C22_NoTransitionIsNoOp ==
    [][ (HandledTransition
         /\ \A t \in DeclaredAt(zones, call'.at) : ResidentWith(zones, t[3]) = {}) =>
          /\ ~call'.ok
          /\ call'.after = call'.rect
          /\ zones' = zones
          /\ active_zones' = active_zones
          /\ zone_states' = zone_states
          /\ saved_file' = saved_file
          /\ lastOp' = lastOp ]_vars

C22_Witness ==
    /\ call.fn = "handle_player_transition" /\ ~call.ok
    /\ call.rect = Rect(0, 0) /\ call.after = Rect(0, 0)
    /\ Updated
    /\ DeclaredAt(zones, call.at) = {<<0, 0, "forest_glade">>}
    /\ Cardinality(DOMAIN zones) = 25

(* C23: get_transition_at raises nothing; it returns a transition exactly   *)
(* when the zone that get_zone_at returns for the position is in the table  *)
(* and its template declares a transition at the tile of the position, and  *)
(* then it returns one declared there.                                      *)
C23_TransitionAtIsDeclared ==
    [][ (call'.fn = "get_transition_at" /\ call' # call) =>
          /\ ~call'.raised
          /\ call'.found <=> DeclaredAt(zones, call'.at) # {}
          /\ call'.found => call'.transition \in DeclaredAt(zones, call'.at) ]_vars

----------------------------------------------------------------------------
(* C24: a call of apply_variations leaves the template it is called on as   *)
(* it was: the same tiles, decorations with the same properties, enemies    *)
(* with the same patrol points, loot of the same types.                     *)
C24_SourceUnchanged ==
    [][ call'.fn = "apply_variations" => call'.source = call.source ]_vars

(* C25: two calls of apply_variations on the template with the same seed    *)
(* return equal templates, whatever calls with other seeds were made        *)
(* between them.                                                            *)
C25_SameSeedSameVariation ==
    call.fn = "apply_variations" =>
        \A i, j \in DOMAIN call.returned :
            call.returned[i].seed = call.returned[j].seed =>
                call.returned[i].template = call.returned[j].template

----------------------------------------------------------------------------
(* C27: directly after set_state(A) and push_state(B) of registered states  *)
(* the current state is B, and directly after a pop_state() following them  *)
(* the current state is A.                                                  *)
C27_PopReturnsToPrevious ==
    call.fn = "GameStateManager" =>
        \A A, B \in StateIds :
            /\ (Len(call.trail) >= 2
                /\ call.trail[Len(call.trail) - 1] = Entry("set_state", A)
                /\ call.trail[Len(call.trail)] = Entry("push_state", B))
                  => call.current_state = B
            /\ call.trail = <<Entry("set_state", A), Entry("push_state", B),
                              Entry("pop_state", "none")>>
                  => call.current_state = A

----------------------------------------------------------------------------
(* C26: every entry of the zone table at coordinate (zx, zy), the starting  *)
(* zone at (0,0) included, has the id zone_<zx>_<zy>.                       *)
C26_ZoneIdFromCoordinate ==
    \A c \in DOMAIN zones : zones[c].id = ZoneId(c[1], c[2])

(* Chebyshev distance of two coordinates *)
Chebyshev(c, d) ==
    IF Abs(c[1] - d[1]) >= Abs(c[2] - d[2]) THEN Abs(c[1] - d[1]) ELSE Abs(c[2] - d[2])

(* C28: after every tick, failing ones included, the table holds at most    *)
(* (2 * max_load_distance + 1)^2 zones and none farther than                *)
(* max_load_distance from the focal coordinate of the tick.                 *)
C28_TableBounded ==
    Updated =>
        /\ Cardinality(DOMAIN zones) <=
               (2 * max_load_distance + 1) * (2 * max_load_distance + 1)
        /\ \A c \in DOMAIN zones :
               Chebyshev(c, <<FocalCoord(lastOp.camera[1]), FocalCoord(lastOp.camera[2])>>)
                   <= max_load_distance

(* C29: after every tick the entity manager holds exactly one ZONE entity   *)
(* for each coordinate of the table and none for any other coordinate.      *)
C29_OneMarkerPerResidentZone ==
    Updated =>
        \A c \in DOMAIN zones \cup DOMAIN entities.markers :
            MarkerCount(entities, c) = IF c \in DOMAIN zones THEN 1 ELSE 0

(* C30: every key of the zone table is a coordinate and its value the Zone  *)
(* built for that coordinate, and an operation leaves a table entry that it *)
(* does not evict the object it was: the same id and the same template.     *)
C30_EntriesAreBuiltZones ==
    [][ /\ \A c \in DOMAIN zones' :
             /\ Len(c) = 2
             /\ zones'[c].kind = "Zone"
             /\ <<zones'[c].x, zones'[c].y>> = c
        /\ \A c \in DOMAIN zones \cap DOMAIN zones' :
             /\ zones'[c].id = zones[c].id
             /\ zones'[c].template = zones[c].template ]_vars

====
